---- MODULE Spec2Model ----
(***************************************************************************)
(* Model of azcaptchaapi (src/azcaptchaapi/__init__.py): the AZCaptchaApi  *)
(* client, the Captcha ticket it hands out, and the three decorators that  *)
(* classify and retry failures.                                            *)
(*                                                                         *)
(* A Python str is a sequence of tokens.  A token is one character, one    *)
(* HTML entity reference, or one protocol word written as a whole          *)
(* ("CAPCHA_NOT_READY"); literals of the source are one-token strings.     *)
(* Every coroutine is cut at its suspension points (the awaited network    *)
(* request, the awaited sleep): one action runs the code from one           *)
(* suspension point to the next.                                           *)
(***************************************************************************)
EXTENDS Integers, Sequences, FiniteSets, TLC

(***************************************************************************)
(* Bounds of the model.                                                    *)
(***************************************************************************)
MaxBodyLen == 3
MaxPolls == 2

(***************************************************************************)
(* Python values.                                                          *)
(***************************************************************************)
PyNone == [t |-> "None"]
PyStr(s) == [t |-> "str", s |-> s]
PyFloat(m, e) == [t |-> "float", mant |-> m, exp10 |-> e]
PyDict(items) == [t |-> "dict", items |-> items]
PyBoundMethod(name) == [t |-> "method", name |-> name]

Lit(word) == <<word>>

(***************************************************************************)
(* Strings: membership, split, html.unescape, float().                     *)
(***************************************************************************)
RECURSIVE StringsUpTo(_, _)
StringsUpTo(alphabet, n) ==
    IF n = 0 THEN {<<>>}
    ELSE LET shorter == StringsUpTo(alphabet, n - 1)
         IN  shorter \cup {Append(s, ch) : s \in {x \in shorter : Len(x) = n - 1}, ch \in alphabet}

Contains(text, ch) == \E i \in 1..Len(text) : text[i] = ch

FirstIndex(text, ch) == CHOOSE i \in 1..Len(text) : text[i] = ch /\ \A j \in 1..(i - 1) : text[j] /= ch

RECURSIVE Split(_, _)
Split(text, sep) ==
    IF ~Contains(text, sep) THEN <<text>>
    ELSE LET i == FirstIndex(text, sep)
         IN  <<SubSeq(text, 1, i - 1)>> \o Split(SubSeq(text, i + 1, Len(text)), sep)

UnescapeChar(ch) ==
    CASE ch = "&amp;" -> "&"
      [] ch = "&#124;" -> "|"
      [] OTHER -> ch

unescape(text) == [i \in 1..Len(text) |-> UnescapeChar(text[i])]

IsDigit(ch) == ch \in {"0", "1", "2", "3", "4", "5", "6", "7", "8", "9"}

DigitValue(ch) ==
    CASE ch = "0" -> 0 [] ch = "1" -> 1 [] ch = "2" -> 2 [] ch = "3" -> 3 [] ch = "4" -> 4
      [] ch = "5" -> 5 [] ch = "6" -> 6 [] ch = "7" -> 7 [] ch = "8" -> 8 [] ch = "9" -> 9

RECURSIVE DigitsValue(_)
DigitsValue(digits) ==
    IF digits = <<>> THEN 0
    ELSE 10 * DigitsValue(SubSeq(digits, 1, Len(digits) - 1)) + DigitValue(digits[Len(digits)])

RECURSIVE NormalizeDecimal(_, _)
NormalizeDecimal(mant, exp10) ==
    IF exp10 > 0 /\ mant % 10 = 0 THEN NormalizeDecimal(mant \div 10, exp10 - 1)
    ELSE PyFloat(mant, exp10)

\* float(text) accepts digits with at most one decimal point and at least one digit
\* (the part of Python's float grammar the token alphabet can spell).
ParsesAsFloat(text) ==
    /\ \A i \in 1..Len(text) : IsDigit(text[i]) \/ text[i] = "."
    /\ Cardinality({i \in 1..Len(text) : text[i] = "."}) <= 1
    /\ \E i \in 1..Len(text) : IsDigit(text[i])

float(text) ==
    LET parts == Split(text, ".")
        frac == IF Len(parts) = 2 THEN parts[2] ELSE <<>>
    IN  NormalizeDecimal(DigitsValue(parts[1] \o frac), Len(frac))

(***************************************************************************)
(* Exceptions and call outcomes.                                           *)
(***************************************************************************)
Exc(type, arg) == [type |-> type, arg |-> arg]

ClientError == Exc("ClientError", <<>>)
ValueError(msg) == Exc("ValueError", Lit(msg))
CommunicationError == Exc("CommunicationError", Lit("an error occurred while communicating with the AZCaptcha API"))
ResponseFormatError(msg) == Exc("ResponseFormatError", Lit(msg))
\* Mutation: the message leaves the body out.
OperationFailedWithoutBody(text) == Exc("OperationFailedError", Lit("Operation failed"))

\* "Operation failed: %r" % (text,): the message ends with the body.
OperationFailedError(text) == Exc("OperationFailedError", <<"Operation failed: ">> \o text)

NoOutcome == [kind |-> "none"]
Return(value) == [kind |-> "return", value |-> value]
Raise(exc) == [kind |-> "raise", exc |-> exc]

\* Mutation: the decorator lets the transport exception through.
RewriteHttpLetsThrough(o) == o

\* @_rewrite_http_to_com_err
_rewrite_http_to_com_err(o) ==
    IF o.kind = "raise" /\ o.exc.type = "ClientError" THEN Raise(CommunicationError) ELSE o

\* @_rewrite_to_format_err(*exception_types)
_rewrite_to_format_err(exception_types, o) ==
    IF o.kind = "raise" /\ o.exc.type \in exception_types
    THEN Raise(ResponseFormatError("unexpected response format"))
    ELSE o

(***************************************************************************)
(* The service: endpoints, requests, responses.                            *)
(***************************************************************************)
REQ_URL == Lit("http://azcaptcha.com/in.php")
RES_URL == Lit("http://azcaptcha.com/res.php")
LOAD_URL == Lit("http://azcaptcha.com/load.php")

ApiKey == Lit("APIKEY")
RawData == Lit("<image bytes>")

NoRequest == [method |-> "none"]
\* AZCaptchaApi.get: params['key'] = self.api_key, then session.get(url, params=params)
HttpGet(url, params) == [method |-> "GET", url |-> url, params |-> Append(params, <<"key", ApiKey>>)]
\* AZCaptchaApi.post: data.add_field('key', self.api_key), then session.post(url, data=data)
HttpPost(url, data) == [method |-> "POST", url |-> url, params |-> Append(data, <<"key", ApiKey>>)]

NoResponse == [kind |-> "none"]
Body(text) == [kind |-> "body", text |-> text]
\* The request (or reading its body) raised aiohttp.client_exceptions.ClientError.
TransportFailure == [kind |-> "ClientError"]

Chars == {"OK", "a", "|", "&amp;", "&#124;"}
SubmitChars == {"a", "|"}
CAPCHA_NOT_READY == Lit("CAPCHA_NOT_READY")
CAPTCHA_NOT_READY == Lit("CAPTCHA_NOT_READY")
OK_REPORT_RECORDED == Lit("OK_REPORT_RECORDED")

SubmitBodies == StringsUpTo(SubmitChars, MaxBodyLen)
PollBodies == StringsUpTo(Chars, MaxBodyLen) \cup {CAPCHA_NOT_READY, CAPTCHA_NOT_READY}
ReportBodies == {OK_REPORT_RECORDED, <<>>, Lit("a"), Lit("ERROR_WRONG_CAPTCHA_ID")}
BalanceBodies == {<<"1", "2", ".", "5", "0">>, <<"5">>, <<"7", ".">>, <<".", "5">>, <<".">>, <<>>,
                  <<"1", ".", "2", ".", "5">>, Lit("not-a-number")}
TextBodies == {Lit("<xml/>"), <<>>}

Responses(bodies) == {Body(b) : b \in bodies} \cup {TransportFailure}

(***************************************************************************)
(* State.                                                                  *)
(***************************************************************************)
Tasks == {"t1", "t2"}
Callers == {"t1"}
Slots == {"c1"}

VARIABLES
    captcha,    \* Slots -> the Captcha object the caller holds in that variable
    polls,      \* Slots -> try_get_result calls on that Captcha that returned None (history)
    pc,         \* Tasks -> the suspension point the task is at
    op,         \* Tasks -> the operation the task last called
    target,     \* Tasks -> the slot that operation works on
    retries,    \* Tasks -> retry_on_timeout's local `retries`
    errs,       \* Tasks -> exception types of this call's failed attempts (history)
    nreq,       \* Tasks -> network requests this call has issued (history)
    req,        \* Tasks -> the request in flight
    resp,       \* Tasks -> the response that ended the call (none while it runs)
    outcome     \* Tasks -> what the call returned or raised

vars == <<captcha, polls, pc, op, target, retries, errs, nreq, req, resp, outcome>>

NoCaptcha == [exists |-> FALSE, captcha_id |-> <<>>, _cached_result |-> PyNone, _reported_bad |-> FALSE]
\* Captcha.__init__
NewCaptcha(captcha_id) ==
    [exists |-> TRUE, captcha_id |-> captcha_id, _cached_result |-> PyNone, _reported_bad |-> FALSE]

NoSlot == "-"

Init ==
    /\ captcha = [c \in Slots |-> NoCaptcha]
    /\ polls = [c \in Slots |-> 0]
    /\ pc = [t \in Tasks |-> "idle"]
    /\ op = [t \in Tasks |-> "none"]
    /\ target = [t \in Tasks |-> NoSlot]
    /\ retries = [t \in Tasks |-> 0]
    /\ errs = [t \in Tasks |-> <<>>]
    /\ nreq = [t \in Tasks |-> 0]
    /\ req = [t \in Tasks |-> NoRequest]
    /\ resp = [t \in Tasks |-> NoResponse]
    /\ outcome = [t \in Tasks |-> NoOutcome]

\* A task enters a call: the frame of the previous call is gone.
Enter(t, name, c) ==
    /\ pc[t] = "idle"
    /\ op' = [op EXCEPT ![t] = name]
    /\ target' = [target EXCEPT ![t] = c]

\* The frame of a new call: nothing retried, nothing received.
NewFrame(t) ==
    /\ retries' = [retries EXCEPT ![t] = 0]
    /\ errs' = [errs EXCEPT ![t] = <<>>]
    /\ resp' = [resp EXCEPT ![t] = NoResponse]

\* The call ends with outcome o.
Finish(t, o) ==
    /\ pc' = [pc EXCEPT ![t] = "idle"]
    /\ req' = [req EXCEPT ![t] = NoRequest]
    /\ outcome' = [outcome EXCEPT ![t] = o]

\* The call issues request r and suspends at `at`.
Issue(t, r, at, n) ==
    /\ pc' = [pc EXCEPT ![t] = at]
    /\ req' = [req EXCEPT ![t] = r]
    /\ nreq' = [nreq EXCEPT ![t] = n + 1]
    /\ outcome' = [outcome EXCEPT ![t] = NoOutcome]

(***************************************************************************)
(* AZCaptchaApi.solve                                                      *)
(***************************************************************************)
FileInputs == {[kind |-> "path"], [kind |-> "fileobj"]}
\* aiofiles.open(file).read() for a path, file.read() for a file object
ReadFile(file) == RawData

ParameterInputs ==
    {PyNone, PyDict(<<>>), PyDict(<<<<"numeric", Lit("1")>>>>), PyDict(<<<<"method", Lit("base64")>>>>)}
Truthy(v) == v.t = "dict" /\ Len(v.items) > 0

\* data = captcha_parameters or {'method': 'post'}; one form field per item, then the file
SolveFormData(raw_data, captcha_parameters) ==
    LET data == IF Truthy(captcha_parameters) THEN captcha_parameters.items
                ELSE <<<<"method", Lit("post")>>>>
    IN  Append(data, <<"file", raw_data>>)

\* Mutation: the unpacking takes the part before the delimiter as the id.
SolveBodyTakesPrefix(r) ==
    IF r.kind = "ClientError" THEN Raise(ClientError)
    ELSE IF Contains(r.text, "|")
         THEN LET parts == Split(r.text, "|")
              IN  IF Len(parts) = 2 THEN Return(NewCaptcha(parts[1]))
                  ELSE Raise(ValueError("too many values to unpack (expected 2)"))
         ELSE Raise(OperationFailedError(r.text))

\* The body of solve from the response on, before the decorators.
SolveBody(r) ==
    IF r.kind = "ClientError" THEN Raise(ClientError)
    ELSE IF Contains(r.text, "|")
         THEN LET parts == Split(r.text, "|")
              IN  IF Len(parts) = 2 THEN Return(NewCaptcha(parts[2]))
                  ELSE Raise(ValueError("too many values to unpack (expected 2)"))
         ELSE Raise(OperationFailedError(r.text))

solve(r) == _rewrite_http_to_com_err(_rewrite_to_format_err({"IndexError", "ValueError"}, SolveBody(r)))

SolveCall(t) ==
    \E c \in Slots, file \in FileInputs, captcha_parameters \in ParameterInputs :
        /\ Enter(t, "solve", c)
        /\ Issue(t, HttpPost(REQ_URL, SolveFormData(ReadFile(file), captcha_parameters)), "solve_post", 0)
        /\ NewFrame(t)
        /\ UNCHANGED <<captcha, polls>>

SolveResp(t) ==
    /\ pc[t] = "solve_post"
    /\ \E r \in Responses(SubmitBodies) :
        LET o == solve(r)
            c == target[t]
        IN  /\ resp' = [resp EXCEPT ![t] = r]
            /\ Finish(t, o)
            /\ IF o.kind = "return"
               THEN /\ captcha' = [captcha EXCEPT ![c] = o.value]
                    /\ polls' = [polls EXCEPT ![c] = 0]
               ELSE UNCHANGED <<captcha, polls>>
            /\ UNCHANGED <<op, target, retries, errs, nreq>>

(***************************************************************************)
(* Captcha.try_get_result under retry_on_timeout(max_retries=3)            *)
(***************************************************************************)
\* Mutation: one attempt fewer.
max_retries_one_fewer == 3 - 1

\* Mutation: one attempt more.
max_retries_one_more == 3 + 1

max_retries == 3

\* Mutation: the cache is never consulted.
CacheNeverHit(c) == FALSE

\* if self._cached_result is not None
CacheHit(c) == captcha[c]._cached_result /= PyNone

\* Mutation: only the correctly spelt sentinel is known.
IsNotReadyOneSpelling(text) == text = CAPTCHA_NOT_READY

IsNotReady(text) == text \in {CAPCHA_NOT_READY, CAPTCHA_NOT_READY}

\* Mutation: the body is split without unescaping it.
PollBodyWithoutUnescape(r) ==
    IF r.kind = "ClientError" THEN Raise(ClientError)
    ELSE IF Contains(r.text, "|")
         THEN LET parts == Split(r.text, "|")
              IN  IF Len(parts) = 2 THEN Return(PyStr(parts[2]))
                  ELSE Raise(ValueError("too many values to unpack (expected 2)"))
         ELSE IF IsNotReady(r.text) THEN Return(PyNone)
         ELSE Raise(OperationFailedError(r.text))

\* One attempt of try_get_result from the response on (before any decorator).
PollBody(r) ==
    IF r.kind = "ClientError" THEN Raise(ClientError)
    ELSE IF Contains(r.text, "|")
         THEN LET parts == Split(unescape(r.text), "|")
              IN  IF Len(parts) = 2 THEN Return(PyStr(parts[2]))
                  ELSE Raise(ValueError("too many values to unpack (expected 2)"))
         ELSE IF IsNotReady(r.text) THEN Return(PyNone)
         ELSE Raise(OperationFailedError(r.text))

\* Mutation: the format-error decorator also takes the service's refusal for a format error.
TryGetResultRewritesRefusal(o) ==
    _rewrite_http_to_com_err(_rewrite_to_format_err({"ValueError", "OperationFailedError"}, o))

\* The decorators above retry_on_timeout, applied to what the wrapper lets out.
try_get_result(o) == _rewrite_http_to_com_err(_rewrite_to_format_err({"ValueError"}, o))

PollRequest(c) == HttpGet(RES_URL, <<<<"action", Lit("get")>>, <<"id", captcha[c].captcha_id>>>>)

Min(a, b) == IF a < b THEN a ELSE b

\* Mutation: the assignment is skipped when the cache is already set.
CacheStoreOnlyWhenEmpty(c, value) ==
    IF captcha[c]._cached_result /= PyNone THEN captcha
    ELSE [captcha EXCEPT ![c]._cached_result = value]

\* The cache assignment of line 227.
CacheStore(c, value) == [captcha EXCEPT ![c]._cached_result = value]

\* Mutation: await_result hands on whatever its first try_get_result produced.
DeliverFirstPoll(t, o) == Finish(t, o)

\* try_get_result hands outcome o to its caller: to the task's caller when the task called
\* it, to the loop of await_result when that did; the loop sleeps on None and ends on
\* anything else (a value breaks it, an exception leaves it).
Deliver(t, o) ==
    IF op[t] = "await_result" /\ o = Return(PyNone)
    THEN /\ pc' = [pc EXCEPT ![t] = "await_sleep"]
         /\ req' = [req EXCEPT ![t] = NoRequest]
         /\ UNCHANGED outcome
    ELSE Finish(t, o)

\* An attempt starts: the cache check, then the request.
TryGetResultCall(t) ==
    \E c \in Slots :
        /\ captcha[c].exists
        /\ Enter(t, "try_get_result", c)
        /\ NewFrame(t)
        /\ IF CacheHit(c)
           THEN /\ Finish(t, try_get_result(Return(captcha[c]._cached_result)))
                /\ nreq' = [nreq EXCEPT ![t] = 0]
           ELSE Issue(t, PollRequest(c), "tgr_get", 0)
        /\ UNCHANGED <<captcha, polls>>

\* The response arrives: the attempt returns or raises into the retry wrapper.
TryGetResultAnswer(t, r) ==
    /\ pc[t] = "tgr_get"
    /\  LET a == PollBody(r)
            c == target[t]
        IN  /\ IF a.kind = "return"
               THEN /\ Deliver(t, try_get_result(a))
                    /\ resp' = [resp EXCEPT ![t] = r]
                    /\ captcha' = IF a.value = PyNone THEN captcha
                                  ELSE CacheStore(c, a.value)
                    /\ polls' = IF a.value = PyNone
                                THEN [polls EXCEPT ![c] = Min(polls[c] + 1, MaxPolls)]
                                ELSE polls
                    /\ UNCHANGED <<retries, errs>>
               ELSE /\ retries' = [retries EXCEPT ![t] = retries[t] + 1]
                    /\ errs' = [errs EXCEPT ![t] = Append(errs[t], a.exc.type)]
                    /\ IF retries[t] + 1 = max_retries
                       THEN /\ Deliver(t, try_get_result(a))
                            /\ resp' = [resp EXCEPT ![t] = r]
                       ELSE /\ pc' = [pc EXCEPT ![t] = "tgr_sleep"]
                            /\ req' = [req EXCEPT ![t] = NoRequest]
                            /\ resp' = [resp EXCEPT ![t] = NoResponse]
                            /\ UNCHANGED outcome
                    /\ UNCHANGED <<captcha, polls>>
            /\ UNCHANGED <<op, target, nreq>>

TryGetResultResp(t) == \E r \in Responses(PollBodies) : TryGetResultAnswer(t, r)

\* asyncio.sleep(wait_time) is over: the loop runs the next attempt.
TryGetResultRetry(t) ==
    /\ pc[t] = "tgr_sleep"
    /\ retries[t] < max_retries
    /\ LET c == target[t]
       IN  IF CacheHit(c)
           THEN /\ Deliver(t, try_get_result(Return(captcha[c]._cached_result)))
                /\ UNCHANGED nreq
           ELSE Issue(t, PollRequest(c), "tgr_get", nreq[t])
    /\ UNCHANGED <<captcha, polls, op, target, retries, errs, resp>>

(***************************************************************************)
(* Captcha.await_result: the loop around try_get_result.                   *)
(***************************************************************************)
\* The call and the first try_get_result of the loop, up to its request.
AwaitResultCall(t) ==
    \E c \in Slots :
        /\ captcha[c].exists
        /\ Enter(t, "await_result", c)
        /\ NewFrame(t)
        /\ IF CacheHit(c)
           THEN /\ Finish(t, try_get_result(Return(captcha[c]._cached_result)))
                /\ nreq' = [nreq EXCEPT ![t] = 0]
           ELSE Issue(t, PollRequest(c), "tgr_get", 0)
        /\ UNCHANGED <<captcha, polls>>

\* asyncio.sleep(sleep_time) is over: the next try_get_result of the loop, up to its request.
AwaitResultPoll(t) ==
    /\ pc[t] = "await_sleep"
    /\ NewFrame(t)
    /\ LET c == target[t]
       IN  IF CacheHit(c)
           THEN /\ Finish(t, try_get_result(Return(captcha[c]._cached_result)))
                /\ nreq' = [nreq EXCEPT ![t] = 0]
           ELSE Issue(t, PollRequest(c), "tgr_get", 0)
    /\ UNCHANGED <<captcha, polls, op, target>>

(***************************************************************************)
(* Captcha.report_bad                                                      *)
(***************************************************************************)
\* Mutation: report_bad does not look at the cached result.
NotYetRetrievedNever(c) == FALSE

\* if self._cached_result is None
NotYetRetrieved(c) == captcha[c]._cached_result = PyNone

\* `resp.text` without a call: the bound method, not the body.
RespTextAttribute(r) == PyBoundMethod("text")

ReportBadBody(r) ==
    IF r.kind = "ClientError" THEN Raise(ClientError)
    ELSE IF RespTextAttribute(r) /= PyStr(OK_REPORT_RECORDED)
         THEN Raise(ResponseFormatError("unexpected API response"))
         ELSE Return(PyNone)

report_bad(o) == _rewrite_http_to_com_err(o)

ReportBadCall(t) ==
    \E c \in Slots :
        /\ captcha[c].exists
        /\ Enter(t, "report_bad", c)
        /\ NewFrame(t)
        /\ IF NotYetRetrieved(c)
           THEN /\ Finish(t, report_bad(Raise(ValueError("tried reporting bad state for captcha not yet retrieved"))))
                /\ nreq' = [nreq EXCEPT ![t] = 0]
           ELSE IF captcha[c]._reported_bad
           THEN /\ Finish(t, report_bad(Raise(ValueError("tried double-reporting bad captcha"))))
                /\ nreq' = [nreq EXCEPT ![t] = 0]
           ELSE Issue(t, HttpGet(RES_URL, <<<<"action", Lit("reportbad")>>, <<"id", captcha[c].captcha_id>>>>),
                      "rb_get", 0)
        /\ UNCHANGED <<captcha, polls>>

ReportBadResp(t) ==
    /\ pc[t] = "rb_get"
    /\ \E r \in Responses(ReportBodies) :
        /\ resp' = [resp EXCEPT ![t] = r]
        /\ Finish(t, report_bad(ReportBadBody(r)))
    /\ UNCHANGED <<captcha, polls, op, target, retries, errs, nreq>>

(***************************************************************************)
(* AZCaptchaApi.get_balance, get_stats, get_load                           *)
(***************************************************************************)
GetBalanceBody(r) ==
    IF r.kind = "ClientError" THEN Raise(ClientError)
    ELSE IF ParsesAsFloat(r.text) THEN Return(float(r.text))
    ELSE Raise(ValueError("could not convert string to float"))

\* Mutation: get_balance without the format-error decorator.
GetBalanceWithoutFormatErr(r) == _rewrite_http_to_com_err(GetBalanceBody(r))

get_balance(r) == _rewrite_http_to_com_err(_rewrite_to_format_err({"ValueError"}, GetBalanceBody(r)))

\* resp.text() handed through unparsed
TextBody(r) == IF r.kind = "ClientError" THEN Raise(ClientError) ELSE Return(PyStr(r.text))

get_stats(r) == _rewrite_http_to_com_err(TextBody(r))
get_load(r) == _rewrite_http_to_com_err(TextBody(r))

DateInputs == {[t |-> "str", iso |-> Lit("2016-01-31")], [t |-> "date", iso |-> Lit("2016-01-31")]}
\* date if type(date) == str else date.isoformat()
DateParam(date) == date.iso

GetBalanceCall(t) ==
    /\ Enter(t, "get_balance", NoSlot)
    /\ Issue(t, HttpGet(RES_URL, <<<<"action", Lit("getbalance")>>>>), "balance_get", 0)
    /\ NewFrame(t)
    /\ UNCHANGED <<captcha, polls>>

GetBalanceResp(t) ==
    /\ pc[t] = "balance_get"
    /\ \E r \in Responses(BalanceBodies) :
        /\ resp' = [resp EXCEPT ![t] = r]
        /\ Finish(t, get_balance(r))
    /\ UNCHANGED <<captcha, polls, op, target, retries, errs, nreq>>

GetStatsCall(t) ==
    \E date \in DateInputs :
        /\ Enter(t, "get_stats", NoSlot)
        /\ Issue(t, HttpGet(RES_URL, <<<<"action", Lit("getstats")>>, <<"date", DateParam(date)>>>>),
                 "stats_get", 0)
        /\ NewFrame(t)
        /\ UNCHANGED <<captcha, polls>>

GetStatsResp(t) ==
    /\ pc[t] = "stats_get"
    /\ \E r \in Responses(TextBodies) :
        /\ resp' = [resp EXCEPT ![t] = r]
        /\ Finish(t, get_stats(r))
    /\ UNCHANGED <<captcha, polls, op, target, retries, errs, nreq>>

GetLoadCall(t) ==
    /\ Enter(t, "get_load", NoSlot)
    /\ Issue(t, HttpGet(LOAD_URL, <<>>), "load_get", 0)
    /\ NewFrame(t)
    /\ UNCHANGED <<captcha, polls>>

GetLoadResp(t) ==
    /\ pc[t] = "load_get"
    /\ \E r \in Responses(TextBodies) :
        /\ resp' = [resp EXCEPT ![t] = r]
        /\ Finish(t, get_load(r))
    /\ UNCHANGED <<captcha, polls, op, target, retries, errs, nreq>>

(***************************************************************************)
(* One caller drives the client and its ticket, one call at a time.        *)
(***************************************************************************)
Next ==
    \E t \in Callers :
        \/ SolveCall(t)
        \/ SolveResp(t)
        \/ TryGetResultCall(t)
        \/ TryGetResultResp(t)
        \/ TryGetResultRetry(t)
        \/ AwaitResultCall(t)
        \/ AwaitResultPoll(t)
        \/ ReportBadCall(t)
        \/ ReportBadResp(t)
        \/ GetBalanceCall(t)
        \/ GetBalanceResp(t)
        \/ GetStatsCall(t)
        \/ GetStatsResp(t)
        \/ GetLoadCall(t)
        \/ GetLoadResp(t)

Spec == Init /\ [][Next]_vars

(***************************************************************************)
(* Vocabulary of the properties.                                           *)
(***************************************************************************)
Count(text, ch) == Cardinality({i \in 1..Len(text) : text[i] = ch})

\* The substring after the (first) delimiter.
AfterDelimiter(text) == SubSeq(text, FirstIndex(text, "|") + 1, Len(text))

\* Task t has finished a call of `name`.
Finished(t, name) == pc[t] = "idle" /\ op[t] = name

\* The step is task t calling `name` on the ticket in slot c (a task leaves "idle" only by a call).
Calls(t, name, c) == pc[t] = "idle" /\ op'[t] = name /\ target'[t] = c

Pending(c) == captcha[c].exists /\ captcha[c]._cached_result = PyNone
Resolved(c) == captcha[c].exists /\ captcha[c]._cached_result /= PyNone

RaisedType(t, type) == outcome[t].kind = "raise" /\ outcome[t].exc.type = type

ApiErrorTypes == {"CommunicationError", "ResponseFormatError", "OperationFailedError"}

(***************************************************************************)
(* C1. Once a ticket holds a cached result, a try_get_result call on it    *)
(* ends in the calling step itself: it returns exactly the cached value,   *)
(* issues no request, and leaves the ticket as it was; and no step of the  *)
(* caller other than a solve that puts a new ticket in the slot changes a  *)
(* cached result that is set.                                              *)
(***************************************************************************)
C1_CachedResultServedWithoutRequest ==
    [][/\ \A t \in Tasks, c \in Slots :
            (Calls(t, "try_get_result", c) /\ Resolved(c))
                => /\ pc'[t] = "idle"
                   /\ nreq'[t] = 0
                   /\ req'[t] = NoRequest
                   /\ outcome'[t] = Return(captcha[c]._cached_result)
                   /\ captcha'[c] = captcha[c]
       /\ \A c \in Slots :
            (Resolved(c) /\ ~\E t \in Tasks : pc[t] = "solve_post" /\ target[t] = c)
                => captcha'[c]._cached_result = captcha[c]._cached_result]_vars

C1_Witness ==
    \E t \in Tasks :
        /\ Finished(t, "try_get_result")
        /\ Resolved(target[t])
        /\ nreq[t] = 0
        /\ outcome[t] = Return(captcha[target[t]]._cached_result)

(***************************************************************************)
(* C2. A try_get_result call on a Pending ticket that is answered with a   *)
(* not-ready sentinel, in either spelling, returns None and leaves the     *)
(* ticket Pending; after any number k of such calls (polls counts them), a *)
(* call answered 'OK|<text>' returns the HTML-unescaped <text> and leaves  *)
(* the ticket Resolved with that value, for every <text> whose unescaped   *)
(* form holds no delimiter.                                                *)
(***************************************************************************)
OkBody(text) == <<"OK", "|">> \o text
IsOkBody(body) == Len(body) >= 2 /\ body[1] = "OK" /\ body[2] = "|"
OkText(body) == SubSeq(body, 3, Len(body))

C2_NotReadyThenResult ==
    \A t \in Tasks :
        (Finished(t, "try_get_result") /\ resp[t].kind = "body")
            => LET c == target[t]
                   body == resp[t].text
               IN  /\ body \in {Lit("CAPTCHA_NOT_READY"), Lit("CAPCHA_NOT_READY")}
                        => /\ outcome[t] = Return(PyNone)
                           /\ Pending(c)
                           /\ polls[c] >= 1
                   /\ (IsOkBody(body) /\ ~Contains(unescape(OkText(body)), "|"))
                        => /\ outcome[t] = Return(PyStr(unescape(OkText(body))))
                           /\ captcha[c]._cached_result = PyStr(unescape(OkText(body)))

\* The claim as stated: the text after 'OK|' comes back as it is, whatever it holds.
C2_AsStated ==
    \A t \in Tasks :
        (Finished(t, "try_get_result") /\ resp[t].kind = "body")
            => LET c == target[t]
                   body == resp[t].text
               IN  /\ body \in {Lit("CAPTCHA_NOT_READY"), Lit("CAPCHA_NOT_READY")}
                        => (outcome[t] = Return(PyNone) /\ Pending(c))
                   /\ IsOkBody(body)
                        => /\ outcome[t] = Return(PyStr(OkText(body)))
                           /\ captcha[c]._cached_result = PyStr(OkText(body))

\* Two not-ready polls, then the poll that resolves the ticket.
C2_Witness ==
    \E t \in Tasks :
        /\ Finished(t, "try_get_result")
        /\ polls[target[t]] >= 2
        /\ nreq[t] = 1
        /\ resp[t] = Body(OkBody(Lit("a")))
        /\ outcome[t] = Return(PyStr(Lit("a")))
        /\ Resolved(target[t])

(***************************************************************************)
(* C3. A try_get_result call whose first two attempts failed with a        *)
(* transport failure has not raised: it waits for or runs its third        *)
(* attempt, and when that attempt is answered successfully the call        *)
(* returns that answer's result (None for a sentinel, the text otherwise). *)
(***************************************************************************)
C3_ThirdAttemptSucceeds ==
    \A t \in Tasks :
        (op[t] = "try_get_result" /\ errs[t] = <<"ClientError", "ClientError">>)
            => \/ pc[t] = "tgr_sleep" /\ nreq[t] = 2
               \/ pc[t] = "tgr_get" /\ nreq[t] = 3
               \/ /\ pc[t] = "idle"
                  /\ nreq[t] = 3
                  /\ resp[t].kind = "body"
                  /\ outcome[t].kind = "return"
                  /\ outcome[t].value =
                        IF Contains(resp[t].text, "|")
                        THEN PyStr(AfterDelimiter(unescape(resp[t].text)))
                        ELSE PyNone

C3_Witness ==
    \E t \in Tasks :
        /\ Finished(t, "try_get_result")
        /\ errs[t] = <<"ClientError", "ClientError">>
        /\ nreq[t] = 3
        /\ outcome[t].kind = "return"
        /\ outcome[t].value /= PyNone

(***************************************************************************)
(* C4. A report_bad call that follows a report_bad call which issued its   *)
(* request on the same ticket finds reported_bad set and fails in the      *)
(* calling step with a local usage error (ValueError), issuing no request, *)
(* whatever the first call's outcome was.                                  *)
(***************************************************************************)
C4_SecondReportFailsLocally ==
    [][\A t \in Tasks, c \in Slots :
            (Finished(t, "report_bad") /\ nreq[t] = 1 /\ target[t] = c /\ Calls(t, "report_bad", c))
                => /\ captcha[c]._reported_bad
                   /\ pc'[t] = "idle"
                   /\ nreq'[t] = 0
                   /\ outcome'[t].kind = "raise"
                   /\ outcome'[t].exc.type = "ValueError"]_vars

(***************************************************************************)
(* C5. report_bad on a ticket whose cached result is absent fails in the   *)
(* calling step with a local usage error (ValueError, none of the three    *)
(* API error kinds), issues no request and leaves the ticket unchanged.    *)
(***************************************************************************)
C5_ReportBeforeResultFailsLocally ==
    [][\A t \in Tasks, c \in Slots :
            (Calls(t, "report_bad", c) /\ Pending(c))
                => /\ pc'[t] = "idle"
                   /\ nreq'[t] = 0
                   /\ req'[t] = NoRequest
                   /\ outcome'[t].kind = "raise"
                   /\ outcome'[t].exc.type = "ValueError"
                   /\ outcome'[t].exc.type \notin ApiErrorTypes
                   /\ captcha'[c] = captcha[c]]_vars

C5_Witness ==
    \E t \in Tasks :
        /\ Finished(t, "report_bad")
        /\ Pending(target[t])
        /\ nreq[t] = 0
        /\ RaisedType(t, "ValueError")

(***************************************************************************)
(* C6. report_bad on a Resolved, unreported ticket issues one GET to the   *)
(* result endpoint with action=reportbad and the ticket id; it returns     *)
(* without error when the body is exactly 'OK_REPORT_RECORDED' and raises  *)
(* ResponseFormatError for every other body.                               *)
(***************************************************************************)
C6_ReportBadAcceptsRecorded ==
    \A t \in Tasks :
        /\ pc[t] = "rb_get"
            => /\ nreq[t] = 1
               /\ req[t].method = "GET"
               /\ req[t].url = Lit("http://azcaptcha.com/res.php")
               /\ \E i \in 1..Len(req[t].params) : req[t].params[i] = <<"action", Lit("reportbad")>>
               /\ \E i \in 1..Len(req[t].params) : req[t].params[i] = <<"id", captcha[target[t]].captcha_id>>
        /\ (Finished(t, "report_bad") /\ resp[t].kind = "body")
            => IF resp[t].text = Lit("OK_REPORT_RECORDED")
               THEN outcome[t] = Return(PyNone)
               ELSE RaisedType(t, "ResponseFormatError")

(***************************************************************************)
(* C7. For every submit response body that contains exactly one delimiter, *)
(* solve returns a ticket whose id is the substring after the delimiter,   *)
(* with cached result absent and reported_bad false, and the caller holds  *)
(* that ticket; a body with more than one delimiter raises                 *)
(* ResponseFormatError.                                                    *)
(***************************************************************************)
C7_SolveReturnsTicket ==
    \A t \in Tasks :
        (Finished(t, "solve") /\ resp[t].kind = "body" /\ Contains(resp[t].text, "|"))
            => IF Count(resp[t].text, "|") = 1
               THEN /\ outcome[t].kind = "return"
                    /\ outcome[t].value = [exists |-> TRUE,
                                           captcha_id |-> AfterDelimiter(resp[t].text),
                                           _cached_result |-> PyNone,
                                           _reported_bad |-> FALSE]
                    /\ captcha[target[t]] = outcome[t].value
               ELSE RaisedType(t, "ResponseFormatError")

\* The claim as stated: any number of delimiters.
C7_AsStated ==
    \A t \in Tasks :
        (Finished(t, "solve") /\ resp[t].kind = "body" /\ Contains(resp[t].text, "|"))
            => /\ outcome[t].kind = "return"
               /\ outcome[t].value.captcha_id = AfterDelimiter(resp[t].text)
               /\ outcome[t].value._cached_result = PyNone
               /\ outcome[t].value._reported_bad = FALSE

C7_Witness ==
    \E t \in Tasks :
        /\ Finished(t, "solve")
        /\ resp[t] = Body(<<"a", "|", "a">>)
        /\ outcome[t].kind = "return"
        /\ captcha[target[t]].captcha_id = <<"a">>
        /\ captcha[target[t]]._cached_result = PyNone

(***************************************************************************)
(* C8. When the submit response body contains no delimiter, the step that  *)
(* ends solve raises OperationFailedError whose message carries the body,  *)
(* and no ticket is created or changed.                                    *)
(***************************************************************************)
C8_SolveFailureCarriesBody ==
    [][\A t \in Tasks :
            (pc[t] = "solve_post" /\ pc'[t] = "idle" /\ resp'[t].kind = "body"
             /\ ~Contains(resp'[t].text, "|"))
                => /\ outcome'[t].kind = "raise"
                   /\ outcome'[t].exc.type = "OperationFailedError"
                   /\ Len(outcome'[t].exc.arg) >= 1
                   /\ Tail(outcome'[t].exc.arg) = resp'[t].text
                   /\ captcha' = captcha]_vars

C8_Witness ==
    \E t \in Tasks :
        /\ Finished(t, "solve")
        /\ resp[t] = Body(<<"a", "a">>)
        /\ RaisedType(t, "OperationFailedError")
        /\ ~captcha[target[t]].exists

(***************************************************************************)
(* C9. For a Pending ticket, a poll response body that contains the        *)
(* delimiter and whose HTML-unescaped form holds exactly one delimiter     *)
(* makes try_get_result return the unescaped text after the delimiter,     *)
(* cache it and leave the ticket Resolved; when the unescaped form holds a *)
(* second delimiter (raw or escaped) the attempt fails, and the call that  *)
(* ends on such a body has failed three times, raises ResponseFormatError  *)
(* and leaves the ticket Pending.                                          *)
(***************************************************************************)
C9_DelimiterBodyResolves ==
    \A t \in Tasks :
        (Finished(t, "try_get_result") /\ resp[t].kind = "body" /\ Contains(resp[t].text, "|"))
            => LET c == target[t]
                   body == resp[t].text
               IN  IF Count(unescape(body), "|") = 1
                   THEN /\ outcome[t] = Return(PyStr(unescape(AfterDelimiter(body))))
                        /\ captcha[c]._cached_result = PyStr(unescape(AfterDelimiter(body)))
                        /\ Resolved(c)
                   ELSE /\ RaisedType(t, "ResponseFormatError")
                        /\ Len(errs[t]) = 3
                        /\ errs[t][3] = "ValueError"
                        /\ Pending(c)

\* The claim as stated: every body containing the delimiter succeeds.
C9_AsStated ==
    \A t \in Tasks :
        (Finished(t, "try_get_result") /\ resp[t].kind = "body" /\ Contains(resp[t].text, "|"))
            => /\ outcome[t] = Return(PyStr(unescape(AfterDelimiter(resp[t].text))))
               /\ captcha[target[t]]._cached_result = PyStr(unescape(AfterDelimiter(resp[t].text)))

C9_Witness ==
    \E t \in Tasks :
        /\ Finished(t, "try_get_result")
        /\ resp[t] = Body(<<"OK", "|", "&amp;">>)
        /\ outcome[t] = Return(PyStr(<<"&">>))
        /\ captcha[target[t]]._cached_result = PyStr(<<"&">>)

IsFailureBody(r) ==
    /\ r.kind = "body"
    /\ ~Contains(r.text, "|")
    /\ r.text \notin {CAPCHA_NOT_READY, CAPTCHA_NOT_READY}

C11_FailureBodyRaisesOperationFailed ==
    \A t \in Tasks :
        (Finished(t, "try_get_result") /\ IsFailureBody(resp[t])) =>
            /\ RaisedType(t, "OperationFailedError")
            /\ outcome[t].exc.arg = <<"Operation failed: ">> \o resp[t].text
            /\ Len(errs[t]) = 3
            /\ errs[t][3] = "OperationFailedError"
            /\ Pending(target[t])
            /\ ~captcha[target[t]]._reported_bad

\* Three bodies of that kind in a row: the last one is the one reported.
C11_Witness ==
    /\ Finished("t1", "try_get_result")
    /\ errs["t1"] = <<"OperationFailedError", "OperationFailedError", "OperationFailedError">>
    /\ resp["t1"] = Body(<<"a", "OK">>)
    /\ outcome["t1"] = Raise(Exc("OperationFailedError", <<"Operation failed: ", "a", "OK">>))
    /\ nreq["t1"] = 3
    /\ Pending("c1")

(***************************************************************************)
(* C12: the form solve uploads holds the caller's parameters, the field    *)
(* method=post unless the caller's parameters name a method themselves,    *)
(* the API key and the file.                                               *)
(***************************************************************************)
Fields(r) == {r.params[i] : i \in 1..Len(r.params)}

CallerItems(captcha_parameters) ==
    IF captcha_parameters.t = "dict"
    THEN {captcha_parameters.items[i] : i \in 1..Len(captcha_parameters.items)}
    ELSE {}

\* {method: 'post'} merged with the caller's parameters, the caller's values winning.
MergedWithDefault(captcha_parameters) ==
    LET items == CallerItems(captcha_parameters)
    IN  IF \E item \in items : item[1] = "method" THEN items
        ELSE items \cup {<<"method", Lit("post")>>}

C12_UploadMergesDefaultMethod ==
    \A t \in Tasks :
        pc[t] = "solve_post" =>
            /\ req[t].method = "POST"
            /\ req[t].url = REQ_URL
            /\ \E captcha_parameters \in ParameterInputs :
                Fields(req[t]) = MergedWithDefault(captcha_parameters)
                                    \cup {<<"file", RawData>>, <<"key", ApiKey>>}

(***************************************************************************)
(* C14: get_balance returns the number the body spells when the body is a  *)
(* decimal number ("12.50" is 12.5, "5" is 5, "7." is 7, ".5" is 0.5) and  *)
(* raises ResponseFormatError, no other error, when the body is not a      *)
(* number.                                                                 *)
(***************************************************************************)
\* mantissa / 10^exp10 with no trailing zero in the fraction
DecimalBodies == {<<"1", "2", ".", "5", "0">>, <<"5">>, <<"7", ".">>, <<".", "5">>}
DecimalValue(body) ==
    CASE body = <<"1", "2", ".", "5", "0">> -> PyFloat(125, 1)
      [] body = <<"5">> -> PyFloat(5, 0)
      [] body = <<"7", ".">> -> PyFloat(7, 0)
      [] body = <<".", "5">> -> PyFloat(5, 1)

C14_BalanceParsedOrFormatError ==
    \A t \in Tasks :
        (Finished(t, "get_balance") /\ resp[t].kind = "body") =>
            IF resp[t].text \in DecimalBodies
            THEN outcome[t] = Return(DecimalValue(resp[t].text))
            ELSE /\ RaisedType(t, "ResponseFormatError")
                 /\ resp[t].text \in {<<".">>, <<>>, <<"1", ".", "2", ".", "5">>, Lit("not-a-number")}

\* A call has failed on "1.2.5", which is not a number.
C14_Witness ==
    /\ Finished("t1", "get_balance")
    /\ resp["t1"] = Body(<<"1", ".", "2", ".", "5">>)
    /\ RaisedType("t1", "ResponseFormatError")
    /\ nreq["t1"] = 1

\* A call has parsed "12.50".
C14_WitnessParsed ==
    /\ Finished("t1", "get_balance")
    /\ resp["t1"] = Body(<<"1", "2", ".", "5", "0">>)
    /\ outcome["t1"] = Return(PyFloat(125, 1))

(***************************************************************************)
(* C15: a try_get_result call makes at most 3 attempts and so at most 3    *)
(* requests; it sleeps for a retry only after fewer than 3 failures and    *)
(* with nothing handed to the caller; a call that returns has hidden the   *)
(* failures before it, and a call that raises has failed 3 times and       *)
(* raises what the decorators make of the third failure.                   *)
(***************************************************************************)
Classification(type) ==
    CASE type = "ClientError" -> "CommunicationError"
      [] type = "ValueError" -> "ResponseFormatError"
      [] type = "OperationFailedError" -> "OperationFailedError"

C15_AtMostThreeAttempts ==
    \A t \in Tasks :
        op[t] = "try_get_result" =>
            /\ nreq[t] <= 3
            /\ Len(errs[t]) = retries[t]
            /\ nreq[t] <= retries[t] + 1
            /\ pc[t] = "tgr_get" => (retries[t] < 3 /\ nreq[t] = retries[t] + 1)
            /\ pc[t] = "tgr_sleep" => (retries[t] \in {1, 2} /\ outcome[t] = NoOutcome)
            /\ (pc[t] = "idle" /\ outcome[t].kind = "return") => retries[t] < 3
            /\ (pc[t] = "idle" /\ outcome[t].kind = "raise") =>
                    /\ retries[t] = 3
                    /\ nreq[t] = 3
                    /\ outcome[t].exc.type = Classification(errs[t][3])

\* Three different failures; the caller sees the third one only.
C15_Witness ==
    /\ Finished("t1", "try_get_result")
    /\ errs["t1"] = <<"ClientError", "ValueError", "OperationFailedError">>
    /\ nreq["t1"] = 3
    /\ RaisedType("t1", "OperationFailedError")

(***************************************************************************)
(* C16: a not-ready sentinel is an answer, not a failure: the attempt that *)
(* receives it ends the call in that step with None, without counting a    *)
(* retry, without a retry delay and without a further request.             *)
(***************************************************************************)
IsSentinel(r) == r.kind = "body" /\ r.text \in {CAPCHA_NOT_READY, CAPTCHA_NOT_READY}

\* The call has ended on a sentinel: it returned None, and the request that fetched the
\* sentinel was the only one after the failures counted.
C16_EndedOnNotReady ==
    \A t \in Tasks :
        (Finished(t, "try_get_result") /\ IsSentinel(resp[t])) =>
            /\ outcome[t] = Return(PyNone)
            /\ retries[t] = Len(errs[t])
            /\ nreq[t] = retries[t] + 1
            /\ retries[t] < 3

\* The step that ends a call on a sentinel starts at the request and counts nothing.
C16_NotReadyEndsTheCall ==
    [][\A t \in Tasks :
        (op[t] = "try_get_result" /\ pc[t] /= "idle" /\ IsSentinel(resp'[t])) =>
            /\ pc[t] = "tgr_get"
            /\ pc'[t] = "idle"
            /\ outcome'[t] = Return(PyNone)
            /\ retries'[t] = retries[t]
            /\ errs'[t] = errs[t]
            /\ nreq'[t] = nreq[t]
            /\ captcha' = captcha]_vars

C16_NotReadyIsNotAFailure == []C16_EndedOnNotReady /\ C16_NotReadyEndsTheCall

\* A sentinel on the first attempt: one request, no failure counted, None returned.
C16_Witness ==
    /\ Finished("t1", "try_get_result")
    /\ resp["t1"] = Body(CAPTCHA_NOT_READY)
    /\ outcome["t1"] = Return(PyNone)
    /\ nreq["t1"] = 1
    /\ errs["t1"] = <<>>

(***************************************************************************)
(* C18: with one caller driving the ticket, no step of a try_get_result,   *)
(* await_result or report_bad call changes a cached result that is set     *)
(* (_cached_result goes from None to a value once and stays), no step      *)
(* takes _reported_bad from true to false, and _reported_bad is never true *)
(* while _cached_result is None.  A solve that puts a new ticket in the    *)
(* slot starts a new object and is not a step on the old one.              *)
(***************************************************************************)
SameTicket(c) == captcha[c].exists /\ ~\E t \in Tasks : pc[t] = "solve_post" /\ target[t] = c

C18_ReportedOnlyWhenCached ==
    \A c \in Slots : captcha[c]._reported_bad => captcha[c]._cached_result /= PyNone

C18_FieldsChangeOnce ==
    [][\A c \in Slots :
        SameTicket(c) =>
            /\ captcha[c]._cached_result /= PyNone
                    => captcha'[c]._cached_result = captcha[c]._cached_result
            /\ captcha[c]._reported_bad => captcha'[c]._reported_bad
            /\ captcha'[c].captcha_id = captcha[c].captcha_id
            \* the one assignment is made by a poll that is answered
            /\ captcha'[c]._cached_result /= captcha[c]._cached_result
                    => \E t \in Tasks : /\ pc[t] = "tgr_get"
                                        /\ target[t] = c
                                        /\ op[t] \in {"try_get_result", "await_result"}
                                        /\ outcome'[t] = Return(captcha'[c]._cached_result)]_vars

C18_TicketFieldsMonotonic == []C18_ReportedOnlyWhenCached /\ C18_FieldsChangeOnce

\* A ticket that was polled while not ready, then resolved by a later poll, and on which
\* a report_bad call has then sent its request.
C18_Witness ==
    /\ Finished("t1", "report_bad")
    /\ nreq["t1"] = 1
    /\ Resolved("c1")
    /\ polls["c1"] >= 1
    /\ captcha["c1"]._cached_result = PyStr(<<"a", "&">>)

(***************************************************************************)
(* Two tasks on one event loop.                                            *)
(*                                                                         *)
(* Every wait of the module is an `await` (session.get at 118,             *)
(* asyncio.sleep at 98 and 248): the coroutine yields and the loop runs    *)
(* any other task that is ready.  A task can be cancelled at each of its   *)
(* suspension points.  The tasks share one ticket, already handed out by   *)
(* solve, and nothing serializes their calls on it.                        *)
(***************************************************************************)
\* Mutation: the poll-interval wait and the retry delay are time.sleep.
BlockingPointsTimeSleep == {"await_sleep", "tgr_sleep"}

\* The suspension points at which a waiting task keeps the thread: none, all are awaits.
BlockingPoints == {}

\* The loop can run task t: no other task is holding the thread.
Runnable(t) == \A u \in Tasks \ {t} : pc[u] \notin BlockingPoints

CancelledError == Exc("CancelledError", <<>>)

\* `except Exception` (94) catches asyncio.CancelledError where it derives from Exception
\* (Python 3.5 to 3.7, which lines 22-27 and setup.py admit) and not where it derives from
\* BaseException (3.8 and later).
CancelledErrorIsException == {TRUE, FALSE}

\* task.cancel() while t is suspended: CancelledError is raised at the await.  At the
\* request it is raised inside the wrapper's try (92); at the sleeps it is raised outside
\* any try and leaves the call.
Cancel(t) ==
    /\ pc[t] \in {"tgr_get", "tgr_sleep", "await_sleep", "load_get"}
    /\ IF pc[t] = "tgr_get"
       THEN \E caught \in CancelledErrorIsException :
                IF caught
                THEN /\ retries' = [retries EXCEPT ![t] = retries[t] + 1]
                     /\ errs' = [errs EXCEPT ![t] = Append(errs[t], "CancelledError")]
                     /\ IF retries[t] + 1 = max_retries
                        THEN Finish(t, try_get_result(Raise(CancelledError)))
                        ELSE /\ pc' = [pc EXCEPT ![t] = "tgr_sleep"]
                             /\ req' = [req EXCEPT ![t] = NoRequest]
                             /\ UNCHANGED outcome
                ELSE /\ Finish(t, try_get_result(Raise(CancelledError)))
                     /\ UNCHANGED <<retries, errs>>
       ELSE /\ Finish(t, Raise(CancelledError))
            /\ UNCHANGED <<retries, errs>>
    /\ resp' = [resp EXCEPT ![t] = NoResponse]
    /\ UNCHANGED <<captcha, polls, op, target, nreq>>

\* What the service answers to the polls of the two tasks.
TaskPollBodies == {CAPTCHA_NOT_READY, <<"OK", "|", "a">>, <<"OK", "|", "&amp;">>, Lit("ERROR_CAPTCHA_UNSOLVABLE")}

\* The steps of task t's own code, each taken when the loop can run t.
TaskTryGetResultCall(t) == Runnable(t) /\ TryGetResultCall(t)
TaskTryGetResultResp(t) == Runnable(t) /\ \E r \in Responses(TaskPollBodies) : TryGetResultAnswer(t, r)
TaskTryGetResultRetry(t) == Runnable(t) /\ TryGetResultRetry(t)
TaskAwaitResultCall(t) == Runnable(t) /\ AwaitResultCall(t)
TaskAwaitResultPoll(t) == Runnable(t) /\ AwaitResultPoll(t)
TaskGetLoadCall(t) == Runnable(t) /\ GetLoadCall(t)
TaskGetLoadResp(t) == Runnable(t) /\ GetLoadResp(t)

TaskStep(t) ==
    \/ TaskTryGetResultCall(t)
    \/ TaskTryGetResultResp(t)
    \/ TaskTryGetResultRetry(t)
    \/ TaskAwaitResultCall(t)
    \/ TaskAwaitResultPoll(t)
    \/ TaskGetLoadCall(t)
    \/ TaskGetLoadResp(t)

\* solve has returned the ticket "a" into the slot.
InitTasks ==
    /\ captcha = [c \in Slots |-> NewCaptcha(Lit("a"))]
    /\ polls = [c \in Slots |-> 0]
    /\ pc = [t \in Tasks |-> "idle"]
    /\ op = [t \in Tasks |-> "none"]
    /\ target = [t \in Tasks |-> NoSlot]
    /\ retries = [t \in Tasks |-> 0]
    /\ errs = [t \in Tasks |-> <<>>]
    /\ nreq = [t \in Tasks |-> 0]
    /\ req = [t \in Tasks |-> NoRequest]
    /\ resp = [t \in Tasks |-> NoResponse]
    /\ outcome = [t \in Tasks |-> NoOutcome]

NextTasks ==
    \E t \in Tasks :
        \/ TaskStep(t)
        \/ Cancel(t)

SpecTasks == InitTasks /\ [][NextTasks]_vars

(***************************************************************************)
(* C13: a task waiting out the poll interval of await_result, between a    *)
(* poll that returned None and the next one, does not hold the thread:     *)
(* every other task can take its next step, which starts a call when that  *)
(* task is idle and completes its call when its request is in flight.      *)
(***************************************************************************)
BetweenPolls(t) ==
    /\ op[t] = "await_result"
    /\ pc[t] = "await_sleep"
    /\ IsSentinel(resp[t])

C13_SleepingPollerDoesNotBlock ==
    \A t \in Tasks : \A u \in Tasks \ {t} :
        BetweenPolls(t) =>
            /\ ENABLED TaskStep(u)
            /\ pc[u] = "idle" => ENABLED TaskAwaitResultCall(u)
            /\ pc[u] = "load_get" => ENABLED (TaskGetLoadResp(u) /\ pc'[u] = "idle")
            /\ pc[u] = "tgr_get" =>
                    ENABLED (TaskTryGetResultResp(u) /\ pc'[u] = "idle" /\ outcome'[u].kind = "return")

\* t1 is between two polls while t2's await_result on the ticket has a request in flight
\* that can be answered with the result.
C13_Witness ==
    /\ BetweenPolls("t1")
    /\ polls["c1"] >= 1
    /\ op["t2"] = "await_result"
    /\ pc["t2"] = "tgr_get"
    /\ ENABLED (TaskTryGetResultResp("t2") /\ outcome'["t2"] = Return(PyStr(<<"&">>)))

(***************************************************************************)
(* C19: a cancellation delivered at a suspension point of try_get_result   *)
(* or await_result (the request in flight, the retry delay, the            *)
(* poll-interval sleep) ends the call in that step with CancelledError:    *)
(* the retry wrapper does not count it as a failed attempt and go on, and  *)
(* the ticket is left as it was.                                           *)
(***************************************************************************)
\* The step delivers a cancellation to task t inside try_get_result or await_result.
CancelledIn(t) ==
    /\ op[t] \in {"try_get_result", "await_result"}
    /\ pc[t] \in {"tgr_get", "tgr_sleep", "await_sleep"}
    /\ \/ outcome'[t] = Raise(CancelledError)
       \/ errs'[t] = Append(errs[t], "CancelledError")

C19_CancellationEndsTheCall ==
    [][\A t \in Tasks :
        CancelledIn(t) =>
            /\ pc'[t] = "idle"
            /\ outcome'[t] = Raise(CancelledError)
            /\ errs'[t] = errs[t]
            /\ captcha' = captcha]_vars

(***************************************************************************)
(* C20: nothing holds a second try_get_result back while a first one has   *)
(* its request in flight on the same Pending ticket, and the poll answer   *)
(* assigns _cached_result without looking at it again: every poll answered *)
(* with a result stores that result, whatever the cache holds by then, so  *)
(* two interleaved calls assign twice and the later one overwrites.        *)
(***************************************************************************)
C20_AnsweredPollOverwrites ==
    [][\A t \in Tasks :
        (/\ op[t] = "try_get_result"
         /\ pc[t] = "tgr_get"
         /\ pc'[t] = "idle"
         /\ outcome'[t].kind = "return"
         /\ outcome'[t].value /= PyNone)
            => /\ captcha'[target[t]]._cached_result = outcome'[t].value
               /\ nreq'[t] >= 1]_vars

\* Both calls passed the cache check and polled once; each was answered with a different
\* text and returned it; the cache holds the text of t2, assigned over that of t1.
C20_Witness ==
    /\ Finished("t1", "try_get_result") /\ Finished("t2", "try_get_result")
    /\ target["t1"] = "c1" /\ target["t2"] = "c1"
    /\ nreq["t1"] = 1 /\ nreq["t2"] = 1
    /\ outcome["t1"] = Return(PyStr(<<"a">>))
    /\ outcome["t2"] = Return(PyStr(<<"&">>))
    /\ captcha["c1"]._cached_result = PyStr(<<"&">>)

(***************************************************************************)
(* One caller polling one ticket with await_result.                        *)
(*                                                                         *)
(* A call that is under way goes on: the loop resumes a coroutine whose    *)
(* sleep is over, and a request ends with a response or a transport        *)
(* failure.  Nothing makes the caller call again, and nothing makes the    *)
(* service answer with a result.                                           *)
(***************************************************************************)
\* The steps of a call that is under way.
CallProgress(t) ==
    \/ TaskTryGetResultResp(t)
    \/ TaskTryGetResultRetry(t)
    \/ TaskAwaitResultPoll(t)

NextAwait ==
    \E t \in Callers :
        \/ TaskAwaitResultCall(t)
        \/ TaskTryGetResultCall(t)
        \/ TaskTryGetResultResp(t)
        \/ TaskTryGetResultRetry(t)
        \/ TaskAwaitResultPoll(t)

SpecAwait == InitTasks /\ [][NextAwait]_vars /\ \A t \in Callers : WF_vars(CallProgress(t))

(***************************************************************************)
(* C17: await_result polls with try_get_result.  A poll that returns None  *)
(* sends the call into the poll-interval sleep with nothing handed to the  *)
(* caller; a poll that produces a result ends the call in that step with   *)
(* that result, so no poll follows it; a poll that has failed three times  *)
(* ends the call with that error.  A call never returns None.  And unless  *)
(* the service keeps answering not-ready for ever, the call ends.          *)
(***************************************************************************)
InAwaitResult(t) == op[t] = "await_result" /\ pc[t] /= "idle"

C17_AwaitResultOutcome ==
    \A t \in Tasks :
        Finished(t, "await_result") =>
            /\ req[t] = NoRequest
            /\ \/ /\ outcome[t].kind = "return"
                  /\ outcome[t].value /= PyNone
                  /\ outcome[t].value = captcha[target[t]]._cached_result
                  /\ resp[t].kind = "body" => outcome[t].value = PyStr(unescape(OkText(resp[t].text)))
               \/ /\ outcome[t].kind = "raise"
                  /\ retries[t] = 3
                  /\ outcome[t].exc.type = Classification(errs[t][3])

C17_PollStep ==
    [][\A t \in Tasks :
        (InAwaitResult(t) /\ pc[t] = "tgr_get" /\ resp'[t].kind = "body") =>
            IF IsSentinel(resp'[t])
            THEN /\ pc'[t] = "await_sleep"
                 /\ req'[t] = NoRequest
                 /\ outcome'[t] = NoOutcome
                 /\ captcha' = captcha
            ELSE /\ pc'[t] = "idle"
                 /\ IsOkBody(resp'[t].text)
                        => outcome'[t] = Return(PyStr(unescape(OkText(resp'[t].text))))]_vars

\* The poll-interval sleep is left only by a new poll: a request, since one caller's cache
\* is still empty.
C17_SleepThenPoll ==
    [][\A t \in Tasks :
        (InAwaitResult(t) /\ pc[t] = "await_sleep" /\ pc'[t] /= pc[t]) =>
            /\ pc'[t] = "tgr_get"
            /\ req'[t] = PollRequest(target[t])
            /\ retries'[t] = 0]_vars

C17_EventuallyEnds ==
    \A t \in Callers :
        (<>[](pc[t] /= "await_sleep")) => (InAwaitResult(t) ~> pc[t] = "idle")

C17_AwaitResultPollsUntilResult ==
    /\ []C17_AwaitResultOutcome
    /\ C17_PollStep
    /\ C17_SleepThenPoll
    /\ C17_EventuallyEnds

\* The call slept through a not-ready answer and returned the result of a later poll.
C17_Witness ==
    /\ Finished("t1", "await_result")
    /\ polls["c1"] >= 1
    /\ nreq["t1"] = 1
    /\ resp["t1"] = Body(<<"OK", "|", "&amp;">>)
    /\ outcome["t1"] = Return(PyStr(<<"&">>))

====
